---- MODULE Spec2Model ----
(***************************************************************************)
(* Model of the traffic-incident engine of traffic_service:                *)
(*   app/api/v1/services/traffic_incident_service.py  (the service)        *)
(*   app/api/v1/routes/traffic_incidents.py           (the HTTP handlers)  *)
(*   app/api/database.py                              (the session setup)  *)
(*   app/api/v1/models/*.py                           (the two tables)     *)
(*   app/kafka/producer.py                            (the event sink)     *)
(*                                                                         *)
(* The store is the committed content of the two tables.  Every request    *)
(* runs in its own SQLAlchemy session (get_db); a session is modelled by   *)
(* the statements it sends to the database, one step per statement, so     *)
(* that requests interleave at statement granularity.  Each statement      *)
(* reads the committed content of the tables (read committed), a session's *)
(* own pending changes reach the database only when it flushes, and the    *)
(* flush and the COMMIT of db.commit() are one atomic step.                *)
(***************************************************************************)
EXTENDS Integers, Sequences, FiniteSets, TLC

VARIABLES incidents, votes, sess, now, response, published, nvote, kafka

vars == <<incidents, votes, sess, now, response, published, nvote, kafka>>

----------------------------------------------------------------------------
(* Bounds of the model *)

MaxIncidents == 1

MaxVotes == 3

MaxClock == 3

(* The calls of send_message in one behaviour. *)
MaxSends == 2

(* The request sessions that may be open at the same time. *)
Sessions == {"s1", "s2"}

(* The one session of the sequential specification. *)
SeqSessions == {"s1"}

(* Voter identities; NULL is the absent Optional[str]. *)
NULL == "NULL"

Users == {"u1"}

(* Incident ids a request may name: the ids the store can hold and one    *)
(* more, which never exists.                                               *)
RequestIds == 1..(MaxIncidents + 1)

----------------------------------------------------------------------------
(* enums.py *)

IncidentStatus == {"active", "resolved", "verified", "disputed"}

IncidentType ==
    {"accident", "construction", "closure", "congestion", "weather",
     "hazard", "other"}

IncidentSeverity == {"low", "medium", "high", "critical"}

(* VoteRequest.vote_type: pattern ^(confirm|dispute)$ *)
VoteTypes == {"confirm", "dispute"}

(* TrafficIncidentCreate: the request bodies the model draws from.  They   *)
(* differ in every field, the optional ones both given and omitted.        *)
ReportInputs ==
    { [type |-> "accident", severity |-> "high",
       lat |-> 40, lng |-> -74, description |-> "crash",
       address |-> NULL, affected_lanes |-> NULL,
       estimated_duration |-> NULL, reported_by |-> NULL],
      [type |-> "other", severity |-> "low",
       lat |-> 10, lng |-> 10, description |-> "debris",
       address |-> "Main St", affected_lanes |-> "left",
       estimated_duration |-> "1h", reported_by |-> "u1"] }

----------------------------------------------------------------------------
(* database.py *)

(* SessionLocal = sessionmaker(autocommit=False, autoflush=False, ...):   *)
(* a query does not flush the session's pending changes first.            *)
Autoflush == FALSE

----------------------------------------------------------------------------
(* The tables *)

(* TrafficIncident(...) as create_incident builds it and the INSERT stores *)
(* it: status and votes_dispute take their column defaults, created_at and *)
(* updated_at the clock.                                                   *)
DefaultStatus == "active"

DefaultVotesDispute == 0

ReporterConfirm == 1

(* NewIncident without votes_confirm=1: the column default applies. *)
NewIncident_NoReporterConfirm(data, t) ==
    [type |-> data.type, severity |-> data.severity,
     status |-> DefaultStatus,
     latitude |-> data.lat, longitude |-> data.lng,
     description |-> data.description, address |-> data.address,
     affected_lanes |-> data.affected_lanes,
     estimated_duration |-> data.estimated_duration,
     reported_by |-> data.reported_by,
     created_at |-> t, updated_at |-> t,
     votes_confirm |-> 0,
     votes_dispute |-> DefaultVotesDispute]

NewIncident(data, t) ==
    [type |-> data.type, severity |-> data.severity,
     status |-> DefaultStatus,
     latitude |-> data.lat, longitude |-> data.lng,
     description |-> data.description, address |-> data.address,
     affected_lanes |-> data.affected_lanes,
     estimated_duration |-> data.estimated_duration,
     reported_by |-> data.reported_by,
     created_at |-> t, updated_at |-> t,
     votes_confirm |-> ReporterConfirm,
     votes_dispute |-> DefaultVotesDispute]

(* IncidentVote(...): the row id is the position in votes. *)
NewVote(incident_id, user_id, vote_type, t) ==
    [incident_id |-> incident_id, user_id |-> user_id,
     vote_type |-> vote_type, created_at |-> t]

NoVote == NewVote(0, NULL, "none", 0)

NoIncident == NewIncident(CHOOSE d \in ReportInputs : TRUE, 0)

IncidentIds == 1..Len(incidents)

VoteIds == 1..Len(votes)

(* get_incident: the row with that id, if any *)
Exists(incident_id) == incident_id \in IncidentIds

----------------------------------------------------------------------------
(* kafka/producer.py: the state of the class KafkaProducerService.         *)
(* _instance and _producer are class attributes, None until the class is   *)
(* first called; the module that calls it is imported by no other module   *)
(* of the service.                                                         *)

NoMessage == [topic |-> "none", incident_id |-> 0, key |-> NULL]

(* instance: _instance is set; producer: _producer; pc: "get" while the    *)
(* caller of send_message is inside future.get; message, waited: the       *)
(* record of that call and the seconds it has waited; result: what the     *)
(* last call of send_message returned; calls: the calls made; pending:     *)
(* the records handed to the producer whose delivery is still undecided    *)
(* after their call has returned.                                          *)
NoProducer ==
    [instance |-> FALSE, producer |-> "None", pc |-> "idle",
     message |-> NoMessage, waited |-> 0, result |-> "none", calls |-> 0,
     pending |-> {}]

----------------------------------------------------------------------------
(* A request session *)

IdleSession ==
    [pc |-> "idle", incident_id |-> 0, vote_type |-> "none",
     user_id |-> NULL,
     loaded |-> NoIncident,   \* the incident's attributes as read
     obj |-> NoIncident,      \* the incident object in the identity map
     vote_id |-> 0,           \* existing_vote's row, 0 when there is none
     vote_loaded |-> NoVote,  \* existing_vote's attributes as read
     vote_obj |-> NoVote,     \* existing_vote, or new_vote
     pending |-> "none",      \* "insert": new_vote is in session.new
     confirm_count |-> 0,
     raced |-> FALSE]         \* history: another request committed a vote
                              \* on the same incident since this one began

(* status_filter: Optional[List[str]]; None is given = FALSE. *)
NoFilter == [given |-> FALSE, statuses |-> {}]

StatusFilter(statuses) == [given |-> TRUE, statuses |-> statuses]

(* The arguments of a list request, as the reply's caller knows them. *)
QueryArgs(lat, lng, radius, filter, limit, offset, coords) ==
    [lat |-> lat, lng |-> lng, radius |-> radius, filter |-> filter,
     limit |-> limit, offset |-> offset, coords |-> coords]

NoQuery == QueryArgs(0, 0, 0, NoFilter, 0, 0, <<>>)

(* response is the reply the step just taken sent to its caller; a step   *)
(* that completes no request sends none.                                   *)
NoResponse ==
    [op |-> "none", code |-> 0, incident_id |-> 0, data |-> NoIncident,
     list |-> <<>>, query |-> NoQuery]

Init ==
    /\ incidents = <<>>
    /\ votes = <<>>
    /\ sess = [s \in Sessions |-> IdleSession]
    /\ now = 0
    /\ response = NoResponse
    /\ published = <<>>
    /\ kafka = NoProducer
    /\ nvote = 0

----------------------------------------------------------------------------
(* Helpers of the session *)

Idle(s) == sess[s].pc = "idle"

(* Requests that are between their first statement and their commit and   *)
(* may still insert a vote row.                                            *)
OpenVotes ==
    {s \in Sessions : sess[s].pc \in
        {"vote_lookup", "count_confirm", "count_dispute", "vote_commit"}}

(* The vote rows of a session with its own pending change applied: what a *)
(* query of that session reads once the session has flushed.               *)
Flushed(s) ==
    IF sess[s].pending = "insert" THEN Append(votes, sess[s].vote_obj)
    ELSE IF sess[s].pending = "update"
            THEN [votes EXCEPT ![sess[s].vote_id] = sess[s].vote_obj]
            ELSE votes

(* The vote rows a query of session s reads: Query flushes first only     *)
(* under autoflush.                                                        *)
VisibleVotes(s) == IF Autoflush THEN Flushed(s) ELSE votes

(* func.count(IncidentVote.id) filtered by incident_id and vote_type *)
CountVotes(rows, incident_id, vote_type) ==
    Cardinality({k \in 1..Len(rows) :
                    /\ rows[k].incident_id = incident_id
                    /\ rows[k].vote_type = vote_type})

(* The unit of work's UPDATE of one row: the attributes whose value       *)
(* differs from the value loaded are written, the others keep what the    *)
(* database holds; onupdate fills updated_at when an UPDATE is emitted    *)
(* that does not set it.                                                   *)
FlushRow(dbrow, loaded, obj, onupdate, t) ==
    LET changed == {a \in DOMAIN obj : obj[a] # loaded[a]}
    IN  [a \in DOMAIN dbrow |->
            IF a \in changed THEN obj[a]
            ELSE IF changed # {} /\ a \in onupdate THEN t
            ELSE dbrow[a]]

IncidentOnUpdate == {"updated_at"}

VoteOnUpdate == {}

Respond(op, code, incident_id, data) ==
    [op |-> op, code |-> code, incident_id |-> incident_id, data |-> data,
     list |-> <<>>, query |-> NoQuery]

(* The reply to a list request: the ids of the incidents, in order. *)
RespondList(op, list, query) ==
    [op |-> op, code |-> 200, incident_id |-> 0, data |-> NoIncident,
     list |-> list, query |-> query]

----------------------------------------------------------------------------
(* The clock read by datetime.utcnow() / datetime.now() *)

Tick ==
    /\ now < MaxClock
    /\ now' = now + 1
    /\ response' = NoResponse
    /\ UNCHANGED <<incidents, votes, sess, published, nvote, kafka>>

----------------------------------------------------------------------------
(* POST /report: report_incident -> create_incident.  The INSERT, the     *)
(* COMMIT and the refresh follow each other in the one handler; the row    *)
(* returned is the row stored.  Nothing is handed to the Kafka producer.   *)

create_incident(s, data) ==
    /\ Idle(s)
    /\ Len(incidents) < MaxIncidents
    /\ incidents' = Append(incidents, NewIncident(data, now))
    /\ response' = Respond("report", 200, Len(incidents) + 1,
                           incidents'[Len(incidents) + 1])
    /\ UNCHANGED <<votes, sess, now, published, nvote, kafka>>

----------------------------------------------------------------------------
(* schemas/traffic_schemas.py: the body of POST /report is parsed into    *)
(* TrafficIncidentCreate before report_incident is entered.  A raw body   *)
(* carries its description as the sequence of its characters.              *)

MaxDescription == 1000

Chars(n) == [i \in 1..n |-> "x"]

RawReport ==
    [type |-> "accident", severity |-> "low", lat |-> 40, lng |-> 10,
     description |-> <<"c">>, address |-> NULL, affected_lanes |-> NULL,
     estimated_duration |-> NULL, reported_by |-> NULL]

(* A valid body and the bodies that differ from it in one field, or in    *)
(* every field.                                                            *)
RawReports ==
    {RawReport}
    \cup {[RawReport EXCEPT !.lat = la] : la \in {-91, -90, 90, 91}}
    \cup {[RawReport EXCEPT !.lng = lo] : lo \in {-181, -180, 180, 181}}
    \cup {[RawReport EXCEPT !.description = d] :
             d \in {<<>>, Chars(MaxDescription + 1)}}
    \cup {[RawReport EXCEPT !.type = "blast"],
          [RawReport EXCEPT !.severity = "dire"],
          [RawReport EXCEPT !.type = "blast", !.severity = "dire",
                            !.lat = 91, !.lng = 181, !.description = <<>>]}

(* Coordinates: lat ge=-90 le=90, lng ge=-180 le=180 *)
Coordinates(lat, lng) ==
    /\ lat >= -90 /\ lat <= 90
    /\ lng >= -180 /\ lng <= 180

(* A request model that admits every body. *)
TrafficIncidentCreate_AnyBody(data) == TRUE

(* TrafficIncidentCreate: type and severity members of their enums, the   *)
(* location valid Coordinates, description min_length=1 max_length=1000;  *)
(* the optional fields of the bodies here are absent.                      *)
TrafficIncidentCreate(data) ==
    /\ data.type \in IncidentType
    /\ data.severity \in IncidentSeverity
    /\ Coordinates(data.lat, data.lng)
    /\ Len(data.description) >= 1
    /\ Len(data.description) <= MaxDescription

(* The body fails validation: FastAPI answers 422 before the handler is   *)
(* entered, no session statement is issued.                                *)
ReportInvalid(s, data) ==
    /\ Idle(s)
    /\ ~TrafficIncidentCreate(data)
    /\ response' = Respond("report", 422, 0, NoIncident)
    /\ UNCHANGED <<incidents, votes, sess, now, published, nvote, kafka>>

(* The body parses: report_incident hands it to create_incident. *)
report_incident(s, data) ==
    /\ TrafficIncidentCreate(data)
    /\ create_incident(s, data)

----------------------------------------------------------------------------
(* GET /{incident_id}: get_incident; no row of that id: 404 *)

get_incident(s, incident_id) ==
    /\ Idle(s)
    /\ response' = IF Exists(incident_id)
                      THEN Respond("get", 200, incident_id,
                                   incidents[incident_id])
                      ELSE Respond("get", 404, incident_id, NoIncident)
    /\ UNCHANGED <<incidents, votes, sess, now, published, nvote, kafka>>

----------------------------------------------------------------------------
(* PUT /{incident_id}/vote: vote_on_incident *)

(* The vote types a request body may carry: the two the schema admits and *)
(* one it does not.                                                        *)
VoteInputs == VoteTypes \cup {"abstain"}

(* A request model that admits every string as vote_type. *)
VoteRequest_AnyString(vote_type) == TRUE

(* VoteRequest.vote_type: Field(..., pattern="^(confirm|dispute)$"); the  *)
(* strings the pattern matches are the two alternatives, whole.            *)
VoteRequest_vote_type(vote_type) == vote_type \in {"confirm", "dispute"}

(* The body fails validation of the request model: FastAPI answers 422    *)
(* before the handler, and so the service, is entered.                     *)
VoteInvalid(s, incident_id, vote_type, user_id) ==
    /\ Idle(s)
    /\ ~VoteRequest_vote_type(vote_type)
    /\ response' = Respond("vote", 422, incident_id, NoIncident)
    /\ UNCHANGED <<incidents, votes, sess, now, published, nvote, kafka>>

(* VoteNotFound with the vote added and committed before the incident is  *)
(* looked up.                                                              *)
VoteNotFound_WritesFirst(s, incident_id, vote_type, user_id) ==
    /\ Idle(s)
    /\ VoteRequest_vote_type(vote_type)
    /\ ~Exists(incident_id)
    /\ nvote < MaxVotes
    /\ nvote' = nvote + 1
    /\ votes' = Append(votes, NewVote(incident_id, user_id, vote_type, now))
    /\ response' = Respond("vote", 404, incident_id, NoIncident)
    /\ UNCHANGED <<incidents, sess, now, published, kafka>>

(* incident = self.get_incident(incident_id); not found: 404 *)
VoteNotFound(s, incident_id, vote_type, user_id) ==
    /\ Idle(s)
    /\ VoteRequest_vote_type(vote_type)
    /\ ~Exists(incident_id)
    /\ response' = Respond("vote", 404, incident_id, NoIncident)
    /\ UNCHANGED <<incidents, votes, sess, now, published, nvote, kafka>>

(* The rows of one voter on one incident *)
MatchingVotes(rows, incident_id, user_id) ==
    {k \in 1..Len(rows) : /\ rows[k].incident_id = incident_id
                          /\ rows[k].user_id = user_id}

(* The rows the existing_vote query matches; first() takes one of them. *)
ExistingVotes(incident_id, user_id) ==
    MatchingVotes(votes, incident_id, user_id)

(* nvote counts the vote requests accepted so far, MaxVotes at most.       *)
VoteGetIncident(s, incident_id, vote_type, user_id) ==
    /\ Idle(s)
    /\ VoteRequest_vote_type(vote_type)
    /\ Exists(incident_id)
    /\ nvote < MaxVotes
    /\ nvote' = nvote + 1
    /\ sess' = [sess EXCEPT ![s] =
                  [IdleSession EXCEPT
                     !.pc = "vote_lookup",
                     !.incident_id = incident_id,
                     !.vote_type = vote_type,
                     !.user_id = user_id,
                     !.loaded = incidents[incident_id],
                     !.obj = incidents[incident_id]]]
    /\ response' = NoResponse
    /\ UNCHANGED <<incidents, votes, now, published, kafka>>

(* if user_id: existing_vote = ...first(); overwrite it or add new_vote;  *)
(* else: add new_vote                                                      *)
VoteWrite(s) ==
    LET r == sess[s]
        found == IF r.user_id # NULL
                    THEN ExistingVotes(r.incident_id, r.user_id) ELSE {}
    IN  /\ r.pc = "vote_lookup"
        /\ \/ /\ found # {}
              /\ \E k \in found :
                   sess' = [sess EXCEPT ![s] =
                     [r EXCEPT !.pc = "count_confirm",
                               !.pending = "update",
                               !.vote_id = k,
                               !.vote_loaded = votes[k],
                               !.vote_obj = [votes[k] EXCEPT
                                               !.vote_type = r.vote_type,
                                               !.created_at = now]]]
           \/ /\ found = {}
              /\ sess' = [sess EXCEPT ![s] =
                     [r EXCEPT !.pc = "count_confirm",
                               !.pending = "insert",
                               !.vote_obj = NewVote(r.incident_id, r.user_id,
                                                    r.vote_type, 0)]]
        /\ response' = NoResponse
        /\ UNCHANGED <<incidents, votes, now, published, nvote, kafka>>

(* _update_incident_vote_counts: confirm_count *)
VoteCountConfirm(s) ==
    LET r == sess[s]
    IN  /\ r.pc = "count_confirm"
        /\ sess' = [sess EXCEPT ![s] =
              [r EXCEPT !.pc = "count_dispute",
                        !.confirm_count =
                           CountVotes(VisibleVotes(s), r.incident_id,
                                      "confirm")]]
        /\ response' = NoResponse
        /\ UNCHANGED <<incidents, votes, now, published, nvote, kafka>>

(* _update_incident_vote_counts: dispute_count, then the two assignments  *)
(* to the incident object already in the identity map                      *)
(* VoteCountDispute marking the incident disputed once the disputes      *)
(* outnumber the confirmations.                                            *)
VoteCountDispute_Disputes(s) ==
    LET r == sess[s]
        dispute_count == CountVotes(VisibleVotes(s), r.incident_id, "dispute")
    IN  /\ r.pc = "count_dispute"
        /\ sess' = [sess EXCEPT ![s] =
              [r EXCEPT !.pc = "vote_commit",
                        !.obj = [r.obj EXCEPT
                                   !.votes_confirm = r.confirm_count,
                                   !.votes_dispute = dispute_count,
                                   !.status =
                                      IF dispute_count > r.confirm_count
                                         THEN "disputed" ELSE @]]]
        /\ response' = NoResponse
        /\ UNCHANGED <<incidents, votes, now, published, nvote, kafka>>

VoteCountDispute(s) ==
    LET r == sess[s]
        dispute_count == CountVotes(VisibleVotes(s), r.incident_id, "dispute")
    IN  /\ r.pc = "count_dispute"
        /\ sess' = [sess EXCEPT ![s] =
              [r EXCEPT !.pc = "vote_commit",
                        !.obj = [r.obj EXCEPT
                                   !.votes_confirm = r.confirm_count,
                                   !.votes_dispute = dispute_count]]]
        /\ response' = NoResponse
        /\ UNCHANGED <<incidents, votes, now, published, nvote, kafka>>

(* self.db.commit(): the flush writes the vote row (an INSERT takes       *)
(* created_at from the column default) and the changed attributes of the   *)
(* incident; the handler then reads the incident back.                     *)
VoteCommit(s) ==
    LET r == sess[s]
        id == r.incident_id
    IN  /\ r.pc = "vote_commit"
        /\ votes' =
             IF r.pending = "insert"
                THEN Append(votes, [r.vote_obj EXCEPT !.created_at = now])
                ELSE [votes EXCEPT ![r.vote_id] =
                        FlushRow(@, r.vote_loaded, r.vote_obj,
                                 VoteOnUpdate, now)]
        /\ incidents' = [incidents EXCEPT ![id] =
                           FlushRow(@, r.loaded, r.obj, IncidentOnUpdate, now)]
        /\ response' = Respond("vote", 200, id, incidents'[id])
        /\ sess' = [t \in Sessions |->
                      IF t = s THEN IdleSession
                      ELSE IF t \in OpenVotes /\ sess[t].incident_id = id
                              THEN [sess[t] EXCEPT !.raced = TRUE]
                              ELSE sess[t]]
        /\ UNCHANGED <<now, published, nvote, kafka>>

(* VoteFail with the session's pending vote row written all the same. *)
VoteFail_KeepsVote(s) ==
    /\ s \in OpenVotes
    /\ votes' = Flushed(s)
    /\ response' = Respond("vote", 500, sess[s].incident_id, NoIncident)
    /\ sess' = [sess EXCEPT ![s] = IdleSession]
    /\ UNCHANGED <<incidents, now, published, nvote, kafka>>

(* A statement of the request raises (the database is gone, say): the     *)
(* route answers 500 and get_db closes the session, which rolls back what  *)
(* the session had not committed.                                          *)
VoteFail(s) ==
    /\ s \in OpenVotes
    /\ response' = Respond("vote", 500, sess[s].incident_id, NoIncident)
    /\ sess' = [sess EXCEPT ![s] = IdleSession]
    /\ UNCHANGED <<incidents, votes, now, published, nvote, kafka>>

----------------------------------------------------------------------------
(* PUT /{incident_id}/status: update_incident_status *)

UpdNotFound(s, incident_id, new_status) ==
    /\ Idle(s)
    /\ ~Exists(incident_id)
    /\ response' = Respond("status", 404, incident_id, NoIncident)
    /\ UNCHANGED <<incidents, votes, sess, now, published, nvote, kafka>>

(* UpdGetIncident with resolved as a terminal status. *)
UpdGetIncident_ResolvedIsFinal(s, incident_id, new_status) ==
    /\ Idle(s)
    /\ Exists(incident_id)
    /\ incidents[incident_id].status # "resolved"
    /\ sess' = [sess EXCEPT ![s] =
                  [IdleSession EXCEPT
                     !.pc = "upd_commit",
                     !.incident_id = incident_id,
                     !.loaded = incidents[incident_id],
                     !.obj = [incidents[incident_id] EXCEPT
                                !.status = new_status,
                                !.updated_at = now]]]
    /\ response' = NoResponse
    /\ UNCHANGED <<incidents, votes, now, published, nvote, kafka>>

(* UpdGetIncident without the assignment to updated_at. *)
UpdGetIncident_KeepsUpdatedAt(s, incident_id, new_status) ==
    /\ Idle(s)
    /\ Exists(incident_id)
    /\ sess' = [sess EXCEPT ![s] =
                  [IdleSession EXCEPT
                     !.pc = "upd_commit",
                     !.incident_id = incident_id,
                     !.loaded = incidents[incident_id],
                     !.obj = [incidents[incident_id] EXCEPT
                                !.status = new_status]]]
    /\ response' = NoResponse
    /\ UNCHANGED <<incidents, votes, now, published, nvote, kafka>>

(* incident = self.get_incident(...); incident.status = new_status;       *)
(* incident.updated_at = datetime.utcnow()                                 *)
UpdGetIncident(s, incident_id, new_status) ==
    /\ Idle(s)
    /\ Exists(incident_id)
    /\ sess' = [sess EXCEPT ![s] =
                  [IdleSession EXCEPT
                     !.pc = "upd_commit",
                     !.incident_id = incident_id,
                     !.loaded = incidents[incident_id],
                     !.obj = [incidents[incident_id] EXCEPT
                                !.status = new_status,
                                !.updated_at = now]]]
    /\ response' = NoResponse
    /\ UNCHANGED <<incidents, votes, now, published, nvote, kafka>>

(* UpdCommit deleting the row of the incident. *)
UpdCommit_Deletes(s) ==
    LET r == sess[s]
        id == r.incident_id
    IN  /\ r.pc = "upd_commit"
        /\ incidents' = SubSeq(incidents, 1, id - 1)
                           \o SubSeq(incidents, id + 1, Len(incidents))
        /\ response' = Respond("status", 200, id, r.obj)
        /\ sess' = [sess EXCEPT ![s] = IdleSession]
        /\ UNCHANGED <<votes, now, published, nvote, kafka>>

(* UpdCommit writing every column of the row from the session's object. *)
UpdCommit_WritesWholeRow(s) ==
    LET r == sess[s]
        id == r.incident_id
    IN  /\ r.pc = "upd_commit"
        /\ incidents' = [incidents EXCEPT ![id] = r.obj]
        /\ response' = Respond("status", 200, id, incidents'[id])
        /\ sess' = [sess EXCEPT ![s] = IdleSession]
        /\ UNCHANGED <<votes, now, published, nvote, kafka>>

(* self.db.commit(); self.db.refresh(incident) *)
UpdCommit(s) ==
    LET r == sess[s]
        id == r.incident_id
    IN  /\ r.pc = "upd_commit"
        /\ incidents' = [incidents EXCEPT ![id] =
                           FlushRow(@, r.loaded, r.obj, IncidentOnUpdate, now)]
        /\ response' = Respond("status", 200, id, incidents'[id])
        /\ sess' = [sess EXCEPT ![s] = IdleSession]
        /\ UNCHANGED <<votes, now, published, nvote, kafka>>

----------------------------------------------------------------------------
(* _calculate_distance: the haversine formula.  The floats of the code are *)
(* fixed-point numbers here, Scale to the unit; angles are in radians.     *)

Scale == 10000

Pi == 31416

HalfPi == 15708

(* R = 6371 *)
EarthRadiusKm == 6371

Abs(x) == IF x < 0 THEN -x ELSE x

(* Division of floats is odd in its numerator. *)
Quot(a, b) == IF a < 0 THEN -((-a) \div b) ELSE a \div b

(* math.radians: degrees * pi / 180 *)
radians(deg) == Quot(deg * 174533, 1000)

(* x - x^3/3! + x^5/5! - x^7/7! + x^9/9!, for 0 <= x <= pi/2 *)
SinSeries(x) ==
    LET x2 == (x * x) \div Scale
        t3 == (x * x2) \div (6 * Scale)
        t5 == (t3 * x2) \div (20 * Scale)
        t7 == (t5 * x2) \div (42 * Scale)
        t9 == (t7 * x2) \div (72 * Scale)
    IN  x - t3 + t5 - t7 + t9

(* math.sin, for -pi <= x <= pi *)
sin(x) ==
    LET m == Abs(x)
        r == IF m > HalfPi THEN Pi - m ELSE m
    IN  IF x < 0 THEN -SinSeries(r) ELSE SinSeries(r)

(* math.cos, for -pi/2 <= x <= pi/2 *)
cos(x) == sin(HalfPi - Abs(x))

RECURSIVE Newton(_, _)
Newton(n, g) ==
    LET h == (g + n \div g) \div 2
    IN  IF h >= g THEN g ELSE Newton(n, h)

(* math.sqrt of n / Scale^2, for 0 <= n <= 2 * Scale^2 *)
sqrt(n) == IF n = 0 THEN 0 ELSE Newton(n, 2 * Scale)

(* u - u^3/3 + u^5/5 - u^7/7 + u^9/9, for 0 <= u <= tan(pi/8) *)
AtanSeries(u) ==
    LET u2 == (u * u) \div Scale
        p3 == (u * u2) \div Scale
        p5 == (p3 * u2) \div Scale
        p7 == (p5 * u2) \div Scale
        p9 == (p7 * u2) \div Scale
    IN  u - p3 \div 3 + p5 \div 5 - p7 \div 7 + p9 \div 9

(* atan for 0 <= t <= 1: atan(t) = pi/4 - atan((1 - t) / (1 + t)) *)
atan(t) ==
    IF t > 4142
       THEN (HalfPi \div 2)
            - AtanSeries(((Scale - t) * Scale) \div (Scale + t))
       ELSE AtanSeries(t)

(* math.atan2, for y >= 0 and x >= 0 *)
atan2(y, x) ==
    IF y = 0 THEN 0
    ELSE IF x = 0 THEN HalfPi
    ELSE IF y > x THEN HalfPi - atan((x * Scale) \div y)
    ELSE atan((y * Scale) \div x)

(* The haversine with the cosine of the second latitude taken twice. *)
calculate_distance_OneLatitude(lat1, lon1, lat2, lon2) ==
    LET sdlat == sin(Quot(radians(lat2 - lat1), 2))
        sdlon == sin(Quot(radians(lon2 - lon1), 2))
        a == sdlat * sdlat
             + Quot(((cos(radians(lat2)) * cos(radians(lat2))) \div Scale)
                    * sdlon, Scale) * sdlon
        c == 2 * atan2(sqrt(a), sqrt(Scale * Scale - a))
    IN  (EarthRadiusKm * c) \div Scale

(* The distance in kilometres between two coordinates in degrees.  A      *)
(* product of floats changes sign, not magnitude, with the sign of a      *)
(* factor: the scaled products are divided by Quot where a factor may be   *)
(* negative.                                                               *)
calculate_distance(lat1, lon1, lat2, lon2) ==
    LET sdlat == sin(Quot(radians(lat2 - lat1), 2))
        sdlon == sin(Quot(radians(lon2 - lon1), 2))
        a == sdlat * sdlat
             + Quot(((cos(radians(lat1)) * cos(radians(lat2))) \div Scale)
                    * sdlon, Scale) * sdlon
        c == 2 * atan2(sqrt(a), sqrt(Scale * Scale - a))
    IN  (EarthRadiusKm * c) \div Scale

(* A call of _calculate_distance on two coordinates, and its return: the *)
(* reply carries the coordinates and the distance returned.                *)
DistanceCall(lat1, lon1, lat2, lon2) ==
    [NoResponse EXCEPT !.op = "call",
                       !.query = QueryArgs(lat1, lon1, 0, NoFilter, 0, 0,
                                           <<[lat |-> lat2, lng |-> lon2]>>)]

distance ==
    /\ response.op = "call"
    /\ response' =
          LET q == response.query
              b == q.coords[1]
          IN  RespondList("distance",
                          <<calculate_distance(q.lat, q.lng, b.lat, b.lng)>>,
                          q)
    /\ UNCHANGED <<incidents, votes, sess, now, published, nvote, kafka>>

----------------------------------------------------------------------------
(* GET /traffic-incidents and POST /route-check: the list requests.  A    *)
(* result is the sequence of the ids of the incidents returned.            *)

(* degree_offset = radius_km / 111.0 *)
KmPerDegree == 111

(* limit: int = 100 *)
DefaultLimit == 100

(* latitude.between(latitude - degree_offset, latitude + degree_offset)   *)
(* and the same of the longitude, both sides multiplied by 111.            *)
InBox(row, lat, lng, radius) ==
    /\ KmPerDegree * Abs(row.latitude - lat) <= radius
    /\ KmPerDegree * Abs(row.longitude - lng) <= radius

(* if status_filter: holds of a list that is given and not empty. *)
Truthy(filter) == filter.given /\ filter.statuses # {}

(* get_incidents_by_location with no default when there is no filter. *)
NearStatus_NoDefault(row, filter) ==
    Truthy(filter) => row.status \in filter.statuses

(* status.in_(status_filter) if status_filter else status == active *)
NearStatus(row, filter) ==
    IF Truthy(filter) THEN row.status \in filter.statuses
    ELSE row.status = "active"

(* get_all_incidents with the default of get_incidents_by_location. *)
AllStatus_ActiveDefault(row, filter) == NearStatus(row, filter)

(* get_all_incidents: status.in_(status_filter) if status_filter *)
AllStatus(row, filter) ==
    Truthy(filter) => row.status \in filter.statuses

(* order_by(created_at.desc()): the orders the database may return the    *)
(* rows ids in.  Rows of equal created_at come in any order: the statement *)
(* names no second sort key.                                               *)
OrderByCreatedDesc(rows, ids) ==
    {q \in [1..Cardinality(ids) -> ids] :
        /\ \A a, b \in 1..Cardinality(ids) : a # b => q[a] # q[b]
        /\ \A a, b \in 1..Cardinality(ids) :
              a < b => rows[q[a]].created_at >= rows[q[b]].created_at}

(* .offset(n) *)
Offset(q, n) == SubSeq(q, n + 1, Len(q))

(* .limit(n) *)
Limit(q, n) == SubSeq(q, 1, IF n < Len(q) THEN n ELSE Len(q))

(* The rows of q within the radius, by the exact distance *)
WithinDistance(rows, q, lat, lng, radius) ==
    SelectSeq(q, LAMBDA i :
        calculate_distance(lat, lng, rows[i].latitude, rows[i].longitude)
            <= radius)

(* The rows the query of get_incidents_by_location matches *)
NearCandidates(rows, lat, lng, radius, filter) ==
    {i \in 1..Len(rows) : /\ InBox(rows[i], lat, lng, radius)
                          /\ NearStatus(rows[i], filter)}

(* get_incidents_by_location: the results it may return *)
ByLocation(rows, lat, lng, radius, filter, limit) ==
    {WithinDistance(rows, Limit(q, limit), lat, lng, radius) :
        q \in OrderByCreatedDesc(rows,
                 NearCandidates(rows, lat, lng, radius, filter))}

(* get_all_incidents: the results it may return *)
AllIncidents(rows, filter, limit, offset) ==
    {Limit(Offset(q, offset), limit) :
        q \in OrderByCreatedDesc(rows,
                 {i \in 1..Len(rows) : AllStatus(rows[i], filter)})}

(* The route's loop leaving after its first coordinate. *)
Nearby_FirstOnly(rows, coords, buffer_km) ==
    ByLocation(rows, Head(coords).lat, Head(coords).lng, buffer_km,
               NoFilter, DefaultLimit)

(* incidents.extend(nearby_incidents) for each coordinate of the route *)
RECURSIVE Nearby(_, _, _)
Nearby(rows, coords, buffer_km) ==
    IF coords = <<>> THEN {<<>>}
    ELSE {a \o b :
            a \in ByLocation(rows, Head(coords).lat, Head(coords).lng,
                             buffer_km, NoFilter, DefaultLimit),
            b \in Nearby(rows, Tail(coords), buffer_km)}

(* The route's list returned as it was extended. *)
Unique_KeepAll(q) == q

(* unique_incidents[incident.id] = incident; list(values()): a dict keeps *)
(* its keys in the order of their first insertion.                         *)
RECURSIVE Unique(_)
Unique(q) ==
    IF q = <<>> THEN <<>>
    ELSE LET front == Unique(SubSeq(q, 1, Len(q) - 1))
         IN  IF \E k \in 1..Len(front) : front[k] = q[Len(q)]
                THEN front ELSE Append(front, q[Len(q)])

(* get_incidents_along_route: the results it may return *)
AlongRoute(rows, coords, buffer_km) ==
    {Unique(q) : q \in Nearby(rows, coords, buffer_km)}

get_incidents_by_location(s, lat, lng, radius, filter, limit) ==
    /\ Idle(s)
    /\ \E list \in ByLocation(incidents, lat, lng, radius, filter, limit) :
          response' = RespondList("near", list,
                         QueryArgs(lat, lng, radius, filter, limit, 0, <<>>))
    /\ UNCHANGED <<incidents, votes, sess, now, published, nvote, kafka>>

get_all_incidents(s, filter, limit, offset) ==
    /\ Idle(s)
    /\ \E list \in AllIncidents(incidents, filter, limit, offset) :
          response' = RespondList("all", list,
                         QueryArgs(0, 0, 0, filter, limit, offset, <<>>))
    /\ UNCHANGED <<incidents, votes, sess, now, published, nvote, kafka>>

(* check_route_incidents: the coordinates are not empty *)
get_incidents_along_route(s, coords, buffer_km) ==
    /\ Idle(s)
    /\ coords # <<>>
    /\ \E list \in AlongRoute(incidents, coords, buffer_km) :
          response' = RespondList("route", list,
                         QueryArgs(0, 0, buffer_km, NoFilter, DefaultLimit,
                                   0, coords))
    /\ UNCHANGED <<incidents, votes, sess, now, published, nvote, kafka>>

----------------------------------------------------------------------------
(* kafka/producer.py: KafkaProducerService *)

(* future.get(timeout=10), in seconds *)
GetTimeout == 10

Messages ==
    { [topic |-> "traffic-reports", incident_id |-> i, key |-> NULL] :
      i \in 1..MaxIncidents }

(* KafkaProducerService(): __new__ keeps the one instance, __init__ calls  *)
(* _initialize_producer while _producer is None; KafkaProducer(...) either *)
(* returns the client or raises, and then _producer stays None.  A call    *)
(* that fails again changes nothing.                                       *)
KafkaProducerService(ok) ==
    /\ kafka.pc = "idle"
    /\ kafka.producer = "None"
    /\ ~kafka.instance \/ ok
    /\ kafka' = [kafka EXCEPT !.instance = TRUE,
                              !.producer = IF ok THEN "KafkaProducer"
                                                 ELSE "None"]
    /\ UNCHANGED <<incidents, votes, sess, now, response, published, nvote>>

SendCall == /\ kafka.instance
            /\ kafka.pc = "idle"
            /\ kafka.calls < MaxSends

(* send_message: if self._producer is None: return False *)
SendNotInitialized(m) ==
    /\ SendCall
    /\ kafka.producer = "None"
    /\ kafka' = [kafka EXCEPT !.result = "False", !.calls = @ + 1]
    /\ UNCHANGED <<incidents, votes, sess, now, response, published, nvote>>

(* self._producer.send(...) raises (a serializer, the metadata wait, a    *)
(* closed producer): except ...: return False                              *)
SendRaises(m) ==
    /\ SendCall
    /\ kafka.producer = "KafkaProducer"
    /\ kafka' = [kafka EXCEPT !.result = "False", !.calls = @ + 1]
    /\ UNCHANGED <<incidents, votes, sess, now, response, published, nvote>>

(* future = self._producer.send(...); the caller enters future.get *)
SendFuture(m) ==
    /\ SendCall
    /\ kafka.producer = "KafkaProducer"
    /\ kafka' = [kafka EXCEPT !.pc = "get", !.message = m, !.waited = 0,
                              !.result = "none", !.calls = @ + 1]
    /\ UNCHANGED <<incidents, votes, sess, now, response, published, nvote>>

(* A second passes with the caller inside future.get. *)
FutureWait ==
    /\ kafka.pc = "get"
    /\ kafka.waited < GetTimeout
    /\ kafka' = [kafka EXCEPT !.waited = @ + 1]
    /\ UNCHANGED <<incidents, votes, sess, now, response, published, nvote>>

(* The broker acknowledges the record: future.get returns its metadata,   *)
(* return True                                                             *)
FutureAck ==
    /\ kafka.pc = "get"
    /\ published' = Append(published, kafka.message)
    /\ kafka' = [kafka EXCEPT !.pc = "idle", !.message = NoMessage,
                              !.result = "True"]
    /\ UNCHANGED <<incidents, votes, sess, now, response, nvote>>

(* The send fails for good: future.get raises KafkaError, return False *)
FutureError ==
    /\ kafka.pc = "get"
    /\ kafka' = [kafka EXCEPT !.pc = "idle", !.message = NoMessage,
                              !.result = "False"]
    /\ UNCHANGED <<incidents, votes, sess, now, response, published, nvote>>

(* The timeout of future.get expires: it raises, return False; the record *)
(* stays with the producer, which may still deliver it.                    *)
FutureTimeout ==
    /\ kafka.pc = "get"
    /\ kafka.waited = GetTimeout
    /\ kafka' = [kafka EXCEPT !.pc = "idle", !.message = NoMessage,
                              !.result = "False",
                              !.pending = @ \cup {kafka.message}]
    /\ UNCHANGED <<incidents, votes, sess, now, response, published, nvote>>

(* A record whose call has returned is delivered, or given up. *)
PendingAck(m) ==
    /\ m \in kafka.pending
    /\ published' = Append(published, m)
    /\ kafka' = [kafka EXCEPT !.pending = @ \ {m}]
    /\ UNCHANGED <<incidents, votes, sess, now, response, nvote>>

PendingError(m) ==
    /\ m \in kafka.pending
    /\ kafka' = [kafka EXCEPT !.pending = @ \ {m}]
    /\ UNCHANGED <<incidents, votes, sess, now, response, published, nvote>>

----------------------------------------------------------------------------
(* routes/users.py: POST /login and POST /register.  The module           *)
(* user_service the routes import is not among the sources of the service *)
(* (its tests patch get_user and create_user), and the tests patch        *)
(* auth_service.verify_password too: what the three calls return is an     *)
(* input of the handler.                                                   *)

Usernames == {"testuser", "alice", "bob"}

Passwords == {"testing"}

(* What user_service.get_user returns: no user (None), or a user with the *)
(* stored hash of a password.                                              *)
GetUserResults ==
    {[found |-> FALSE, password |-> ""]}
    \cup {[found |-> TRUE, password |-> p] : p \in Passwords}

(* "exp": datetime.utcnow() + timedelta(minutes=30) *)
TokenMinutes == 30

(* auth_service.create_jwt_token: the signed payload *)
create_jwt_token(user_id) ==
    [signed |-> TRUE, user_id |-> user_id, exp |-> now + TokenMinutes]

(* The tokens a client may present: one issued at a time of the clock, or *)
(* expired since, or one not signed with the key.                          *)
Tokens ==
    { [signed |-> g, user_id |-> u, exp |-> e] :
      g \in BOOLEAN, u \in Usernames, e \in {0, MaxClock + TokenMinutes} }

(* auth_service.verify_jwt_token: jwt.decode raises JWTError on a bad     *)
(* signature and on an exp in the past.                                    *)
verify_jwt_token(token) == token.signed /\ token.exp >= now

(* login refusing whenever the lookup finds no user. *)
login_RequiresUser(s, username, password, user, verified) ==
    /\ Idle(s)
    /\ response' =
          IF ~verified \/ ~user.found
             THEN Respond("login", 401, 0,
                          [detail |-> "Incorrect username or password"])
             ELSE Respond("login", 200, 0,
                          [access_token |-> create_jwt_token(username),
                           token_type |-> "Bearer"])
    /\ UNCHANGED <<incidents, votes, sess, now, published, nvote, kafka>>

(* login: user_password is the stored hash of the user found, "" when     *)
(* none is found; verified is what verify_password(password,              *)
(* user_password) returns.                                                 *)
login(s, username, password, user, verified) ==
    /\ Idle(s)
    /\ response' =
          IF ~verified
             THEN Respond("login", 401, 0,
                          [detail |-> "Incorrect username or password"])
             ELSE Respond("login", 200, 0,
                          [access_token |-> create_jwt_token(username),
                           token_type |-> "Bearer"])
    /\ UNCHANGED <<incidents, votes, sess, now, published, nvote, kafka>>

(* logout: 401 from verify_jwt_token, or the message *)
logout(s, token) ==
    /\ Idle(s)
    /\ response' =
          IF ~verify_jwt_token(token)
             THEN Respond("logout", 401, 0,
                          [detail |-> "Invalid authentication credentials"])
             ELSE Respond("logout", 200, 0,
                          [message |-> "Logged out successfully"])
    /\ UNCHANGED <<incidents, votes, sess, now, published, nvote, kafka>>

(* register_user answering 201 whatever create_user returned. *)
register_user_AlwaysCreated(s, username, password, created) ==
    /\ Idle(s)
    /\ response' = Respond("register", 201, 0,
                           [message |-> "Create user successfully"])
    /\ UNCHANGED <<incidents, votes, sess, now, published, nvote, kafka>>

(* register_user: created is the truth value of what create_user         *)
(* returned.                                                               *)
register_user(s, username, password, created) ==
    /\ Idle(s)
    /\ response' =
          IF ~created
             THEN Respond("register", 422, 0,
                          [detail |-> "User name is exist"])
             ELSE Respond("register", 201, 0,
                          [message |-> "Create user successfully"])
    /\ UNCHANGED <<incidents, votes, sess, now, published, nvote, kafka>>

----------------------------------------------------------------------------
(* The specifications *)

VoterIds == Users \cup {NULL}

(* The status the status requests of the specifications below ask for. *)
StatusInputs == {"resolved"}

(* The first step of a request of session s, its arguments drawn from the *)
(* given sets.                                                             *)
Begin(s, inputs, ids, voters, statuses) ==
    \/ \E data \in inputs : create_incident(s, data)
    \/ \E id \in ids, vt \in VoteTypes, u \in voters :
          VoteNotFound(s, id, vt, u)
    \/ \E id \in ids, vt \in VoteTypes, u \in voters :
          VoteGetIncident(s, id, vt, u)
    \/ \E id \in ids, st \in statuses : UpdNotFound(s, id, st)
    \/ \E id \in ids, st \in statuses : UpdGetIncident(s, id, st)

(* The next statement of the request session s is in. *)
Continue(s) ==
    \/ VoteWrite(s)
    \/ VoteCountConfirm(s)
    \/ VoteCountDispute(s)
    \/ VoteCommit(s)
    \/ UpdCommit(s)

Next ==
    \E s \in Sessions :
        \/ Begin(s, ReportInputs, RequestIds, VoterIds, StatusInputs)
        \/ Continue(s)

(* Requests of concurrent clients, interleaved statement by statement.    *)
Spec == Init /\ [][Next]_vars

NextSeq ==
    \E s \in SeqSessions :
        \/ Begin(s, ReportInputs, RequestIds, VoterIds, StatusInputs)
        \/ Continue(s)

(* One request at a time: every request commits before the next begins.   *)
(* As in Spec the clock stands still, so that every timestamp is the same. *)
SeqSpec == Init /\ [][NextSeq]_vars

NextTimed == Tick \/ NextSeq

(* One request at a time, the clock advancing between the statements.     *)
TimedSpec == Init /\ [][NextTimed]_vars

NextBallot ==
    \E s \in SeqSessions :
        \/ \E data \in ReportInputs : create_incident(s, data)
        \/ \E id \in RequestIds, vt \in VoteInputs, u \in VoterIds :
              VoteInvalid(s, id, vt, u)
        \/ \E id \in RequestIds, vt \in VoteInputs, u \in VoterIds :
              VoteNotFound(s, id, vt, u)
        \/ \E id \in RequestIds, vt \in VoteInputs, u \in VoterIds :
              VoteGetIncident(s, id, vt, u)
        \/ VoteWrite(s)
        \/ VoteCountConfirm(s)
        \/ VoteCountDispute(s)
        \/ VoteCommit(s)

(* Reports and votes, one request at a time, the votes of any type a body *)
(* may carry.                                                              *)
BallotSpec == Init /\ [][NextBallot]_vars

(* The report body whose incidents the status requests of LifecycleSpec   *)
(* move through the statuses.                                              *)
LifecycleInputs == {data \in ReportInputs : data.type = "accident"}

NextLifecycle ==
    \/ Tick
    \/ \E s \in SeqSessions :
          \/ \E data \in LifecycleInputs : create_incident(s, data)
          \/ \E id \in RequestIds, st \in IncidentStatus :
                UpdNotFound(s, id, st)
          \/ \E id \in RequestIds, st \in IncidentStatus :
                UpdGetIncident(s, id, st)
          \/ UpdCommit(s)

(* Reports and status updates, one request at a time, the updates to any  *)
(* status of the enumeration, the clock advancing between the statements.  *)
LifecycleSpec == Init /\ [][NextLifecycle]_vars

NextAtomic ==
    \E s \in Sessions :
        \/ \E data \in LifecycleInputs : create_incident(s, data)
        \/ \E id \in IncidentIds, vt \in VoteTypes, u \in Users :
              VoteGetIncident(s, id, vt, u)
        \/ VoteWrite(s)
        \/ VoteCountConfirm(s)
        \/ VoteCountDispute(s)
        \/ VoteCommit(s)
        \/ VoteFail(s)

(* Votes of identified voters sent by concurrent clients, interleaved     *)
(* statement by statement, any of which may fail at any statement.         *)
AtomicSpec == Init /\ [][NextAtomic]_vars

(* Every timestamp stored is earlier than the clock: the clock has        *)
(* advanced since the last request wrote.                                  *)
ClockAhead ==
    /\ \A i \in IncidentIds : /\ incidents[i].created_at < now
                               /\ incidents[i].updated_at < now
    /\ \A k \in VoteIds : votes[k].created_at < now

NextClock == Tick \/ (ClockAhead /\ NextSeq)

(* One request at a time, on a clock that no two requests read the same   *)
(* value of: a request begins after the clock has passed every timestamp   *)
(* stored.                                                                 *)
ClockSpec == Init /\ [][NextClock]_vars

(* The list requests over a store that stands still.  The store is any    *)
(* sequence of at most MaxStored incidents, each reported at one of three  *)
(* places at one of two times, and active still or resolved since.         *)
MaxStored == 2

(* TrafficIncidentCreate bodies at (70, 10), (60, 30) and (50, 20) *)
GeoInputs ==
    { [type |-> "accident", severity |-> "high",
       lat |-> c.lat, lng |-> c.lng, description |-> "crash",
       address |-> NULL, affected_lanes |-> NULL,
       estimated_duration |-> NULL, reported_by |-> NULL] :
      c \in {[lat |-> 70, lng |-> 10], [lat |-> 60, lng |-> 30],
             [lat |-> 50, lng |-> 20]} }

StoredStatuses == {"active", "resolved"}

StoredTimes == {0, 1}

StoredRows ==
    {[NewIncident(d, t) EXCEPT !.status = st] :
        d \in GeoInputs, st \in StoredStatuses, t \in StoredTimes}

Stores == UNION {[1..n -> StoredRows] : n \in 0..MaxStored}

InitQuery ==
    /\ incidents \in Stores
    /\ votes = <<>>
    /\ sess = [s \in Sessions |-> IdleSession]
    /\ now = 1
    /\ response = NoResponse
    /\ published = <<>>
    /\ kafka = NoProducer
    /\ nvote = 0

(* The arguments of the list requests: lat and lng, radius (and buffer_km) *)
(* in kilometres, status, limit, offset and the route's coordinates.       *)
Centres == {[lat |-> 60, lng |-> 10]}

Radii == {1200, 2400}

StatusFilters ==
    {NoFilter, StatusFilter({"resolved"}),
     StatusFilter({"active", "resolved"})}

Limits == {1, DefaultLimit}

Offsets == {0, 1}

Routes ==
    { <<[lat |-> 60, lng |-> 10]>>,
      <<[lat |-> 60, lng |-> 10], [lat |-> 60, lng |-> 30]>>,
      <<[lat |-> 60, lng |-> 10], [lat |-> 60, lng |-> 10]>> }

(* The client's request: its first one, or the one it made last again.    *)
Asks(op, query) ==
    \/ response.op = "none"
    \/ response.op = op /\ response.query = query

NextQuery ==
    \E s \in SeqSessions :
        \/ \E c \in Centres, r \in Radii, f \in StatusFilters, l \in Limits :
              /\ Asks("near", QueryArgs(c.lat, c.lng, r, f, l, 0, <<>>))
              /\ get_incidents_by_location(s, c.lat, c.lng, r, f, l)
        \/ \E f \in StatusFilters, l \in Limits, o \in Offsets :
              /\ Asks("all", QueryArgs(0, 0, 0, f, l, o, <<>>))
              /\ get_all_incidents(s, f, l, o)
        \/ \E coords \in Routes, b \in Radii :
              /\ Asks("route", QueryArgs(0, 0, b, NoFilter, DefaultLimit,
                                         0, coords))
              /\ get_incidents_along_route(s, coords, b)

(* One list request, made once or again and again, of a store that does   *)
(* not change meanwhile.                                                   *)
QuerySpec == InitQuery /\ [][NextQuery]_vars

NextEngine ==
    \E s \in SeqSessions :
        \/ Begin(s, {d \in GeoInputs : d.lat >= 60}, RequestIds, Users,
                 StatusInputs)
        \/ Continue(s)
        \/ \E id \in RequestIds : get_incident(s, id)
        \/ \E c \in Centres, r \in Radii :
              get_incidents_by_location(s, c.lat, c.lng, r, NoFilter,
                                        DefaultLimit)
        \/ get_all_incidents(s, NoFilter, DefaultLimit, 0)
        \/ \E coords \in {q \in Routes : Len(q) > 1}, b \in Radii :
              get_incidents_along_route(s, coords, b)

(* Every operation of the service, one request at a time. *)
EngineSpec == Init /\ [][NextEngine]_vars

NextReport ==
    \/ Tick
    \/ \E s \in SeqSessions :
          \/ \E data \in RawReports : ReportInvalid(s, data)
          \/ \E data \in RawReports : report_incident(s, data)
          \/ \E id \in RequestIds : get_incident(s, id)

(* Reports of any body a client may send, valid or not, and reads of the  *)
(* incidents stored.                                                       *)
ReportSpec == Init /\ [][NextReport]_vars

NextProducer ==
    \/ \E s \in SeqSessions, data \in LifecycleInputs :
          create_incident(s, data)
    \/ \E ok \in BOOLEAN : KafkaProducerService(ok)
    \/ \E m \in Messages : SendNotInitialized(m)
    \/ \E m \in Messages : SendRaises(m)
    \/ \E m \in Messages : SendFuture(m)
    \/ FutureWait
    \/ FutureAck
    \/ FutureError
    \/ FutureTimeout
    \/ \E m \in Messages : PendingAck(m)
    \/ \E m \in Messages : PendingError(m)

(* The producer called by a client of its own, next to the reports. *)
ProducerSpec == Init /\ [][NextProducer]_vars

(* Valid coordinates: the poles, the date line on either side, the       *)
(* equator and the prime meridian, and places between them.                *)
Latitudes == {-90, -45, 0, 30, 60, 90}

Longitudes == {-180, -90, 0, 10, 170, 180}

InitDistance ==
    /\ incidents = <<>>
    /\ votes = <<>>
    /\ sess = [s \in Sessions |-> IdleSession]
    /\ now = 0
    /\ response \in { DistanceCall(lat1, lon1, lat2, lon2) :
                         lat1 \in Latitudes, lon1 \in Longitudes,
                         lat2 \in Latitudes, lon2 \in Longitudes }
    /\ published = <<>>
    /\ kafka = NoProducer
    /\ nvote = 0

NextDistance == distance

(* _calculate_distance applied to every pair of the coordinates above. *)
DistanceSpec == InitDistance /\ [][NextDistance]_vars

NextUsers ==
    \/ Tick
    \/ \E s \in SeqSessions :
          \/ \E data \in LifecycleInputs : create_incident(s, data)
          \/ \E u \in Usernames, p \in Passwords, user \in GetUserResults,
                verified \in BOOLEAN :
                login(s, u, p, user, verified)
          \/ \E u \in Usernames, p \in Passwords, created \in BOOLEAN :
                register_user(s, u, p, created)
          \/ \E token \in Tokens : logout(s, token)

(* The account routes of the service, next to its reports, one request at *)
(* a time.                                                                 *)
UsersSpec == Init /\ [][NextUsers]_vars

(* Two incidents reported at different places, the second resolved since. *)
TwoIncidents ==
    LET body(la, lo) == CHOOSE d \in GeoInputs : d.lat = la /\ d.lng = lo
    IN  <<NewIncident(body(70, 10), 0),
          [NewIncident(body(60, 30), 0) EXCEPT !.status = "resolved"]>>

InitFrame ==
    /\ incidents = TwoIncidents
    /\ votes = <<>>
    /\ sess = [s \in Sessions |-> IdleSession]
    /\ now = 0
    /\ response = NoResponse
    /\ published = <<>>
    /\ kafka = NoProducer
    /\ nvote = 0

NextFrame ==
    \/ Tick
    \/ \E s \in SeqSessions :
          \/ \E id \in IncidentIds, vt \in VoteTypes, u \in Users :
                VoteGetIncident(s, id, vt, u)
          \/ VoteWrite(s)
          \/ VoteCountConfirm(s)
          \/ VoteCountDispute(s)
          \/ VoteCommit(s)

(* Votes of identified voters on either of two stored incidents, one      *)
(* request at a time.                                                      *)
FrameSpec == InitFrame /\ [][NextFrame]_vars

NextRace ==
    \/ \E data \in LifecycleInputs : create_incident("s1", data)
    \/ \E id \in IncidentIds, vt \in VoteTypes, u \in Users :
          VoteGetIncident("s1", id, vt, u)
    \/ VoteWrite("s1")
    \/ VoteCountConfirm("s1")
    \/ VoteCountDispute("s1")
    \/ VoteCommit("s1")
    \/ \E id \in IncidentIds, st \in {"active", "resolved"} :
          UpdGetIncident("s2", id, st)
    \/ UpdCommit("s2")

(* The votes of one client and the status updates of another, each in its *)
(* own session, interleaved statement by statement, within one reading of *)
(* the clock.                                                              *)
RaceSpec == Init /\ [][NextRace]_vars

----------------------------------------------------------------------------
(* Vocabulary of the properties *)

(* The tallies stored on incident i are the numbers of vote rows of i of  *)
(* either type, in the given tables.                                       *)
TalliesMatch(incs, rows, i) ==
    /\ incs[i].votes_confirm = CountVotes(rows, i, "confirm")
    /\ incs[i].votes_dispute = CountVotes(rows, i, "dispute")

(* The number of vote rows of incident i *)
VoteRecords(rows, i) ==
    Cardinality({k \in 1..Len(rows) : rows[k].incident_id = i})

(* The step is the commit of the vote request of session s. *)
VoteCommits(s) == sess[s].pc = "vote_commit" /\ sess'[s].pc = "idle"

(* No other session is inside a vote request on incident i. *)
NoOtherVoteOpen(s, i) ==
    \A t \in OpenVotes \ {s} : sess[t].incident_id # i

(* The votes of incident i in the order of their rows, as <<voter, type>> *)
Ballots(rows, i) ==
    LET mine == SelectSeq(rows, LAMBDA v : v.incident_id = i)
    IN  [k \in 1..Len(mine) |-> <<mine[k].user_id, mine[k].vote_type>>]

(* The number of vote rows of incident i of one type cast by others than u *)
OthersCount(rows, i, u, vote_type) ==
    Cardinality({k \in 1..Len(rows) : /\ rows[k].incident_id = i
                                      /\ rows[k].vote_type = vote_type
                                      /\ rows[k].user_id # u})

----------------------------------------------------------------------------
(* C1: in every reachable state, the state right after a report included, *)
(* votes_confirm and votes_dispute of every incident equal the numbers of  *)
(* its vote rows of type confirm and dispute.                              *)
C1_TalliesEqualVoteRecords ==
    \A i \in IncidentIds : TalliesMatch(incidents, votes, i)

(* C2: the tallies a vote request commits were counted after its own      *)
(* write: they count the row it inserted or overwrote, so they add up to   *)
(* the number of vote rows of the incident.                                *)
C2_TalliesCountOwnVote ==
    [][\A s \in Sessions :
         VoteCommits(s) =>
            LET i == sess[s].incident_id
            IN  /\ TalliesMatch(incidents', votes', i)
                /\ incidents'[i].votes_confirm + incidents'[i].votes_dispute
                      = VoteRecords(votes', i)]_vars

(* C3: once two vote requests on one incident that ran concurrently have  *)
(* both committed, the stored tallies are the true counts of its rows.     *)
C3_ConcurrentVotesExact ==
    [][\A s \in Sessions :
         (/\ VoteCommits(s)
          /\ sess[s].raced
          /\ NoOtherVoteOpen(s, sess[s].incident_id))
            => TalliesMatch(incidents', votes', sess[s].incident_id)]_vars

(* C4: the second vote of an identified voter on an incident overwrites   *)
(* vote_type and created_at of the voter's row in place: the number of     *)
(* rows is unchanged, the voter has one row, of the second vote's type,    *)
(* and the tallies count it under that type.                               *)
C4_SecondVoteReplaces ==
    [][\A s \in Sessions :
         LET i == sess[s].incident_id
             u == sess[s].user_id
         IN  (/\ VoteCommits(s)
              /\ u # NULL
              /\ MatchingVotes(votes, i, u) # {})
                => /\ Len(votes') = Len(votes)
                   /\ Cardinality(MatchingVotes(votes', i, u)) = 1
                   /\ \A k \in MatchingVotes(votes', i, u) :
                         /\ votes'[k].vote_type = sess[s].vote_type
                         /\ votes'[k].created_at >= votes[k].created_at
                   /\ TalliesMatch(incidents', votes', i)]_vars

(* C5: at most one vote row for every incident and identified voter, in   *)
(* every reachable state.                                                  *)
C5_OneVotePerVoter ==
    \A i \in IncidentIds, u \in Users :
        Cardinality(MatchingVotes(votes, i, u)) <= 1

(* C6: an anonymous vote appends a row and leaves the rows there alone;   *)
(* after N anonymous votes on an incident without other votes the incident *)
(* has N rows and its tallies add up to N.                                 *)
C6_AnonymousVotesAllCount ==
    [][\A s \in Sessions :
         LET i == sess[s].incident_id
         IN  (VoteCommits(s) /\ sess[s].user_id = NULL)
                => /\ Len(votes') = Len(votes) + 1
                   /\ SubSeq(votes', 1, Len(votes)) = votes
                   /\ votes'[Len(votes')].user_id = NULL
                   /\ (\A k \in 1..Len(votes') :
                          votes'[k].incident_id = i => votes'[k].user_id = NULL)
                      => incidents'[i].votes_confirm
                            + incidents'[i].votes_dispute
                               = VoteRecords(votes', i)]_vars

(* C7: report, then an anonymous dispute leaves votes_dispute = 1; then a *)
(* voter's confirm changed to dispute leaves that voter counted as one     *)
(* dispute and no confirm.                                                 *)
C7_ScenarioTallies ==
    [][\A s \in Sessions, u \in Users :
         LET i == sess[s].incident_id
         IN  VoteCommits(s) =>
               /\ Ballots(votes', i) = << <<NULL, "dispute">> >>
                    => incidents'[i].votes_dispute = 1
               /\ (/\ Ballots(votes, i) =
                         << <<NULL, "dispute">>, <<u, "confirm">> >>
                   /\ sess[s].user_id = u
                   /\ sess[s].vote_type = "dispute")
                    => /\ incidents'[i].votes_dispute
                            - OthersCount(votes', i, u, "dispute") = 1
                       /\ incidents'[i].votes_confirm
                            - OthersCount(votes', i, u, "confirm") = 0]_vars

(* C8: the incident a successful report returns, and stores, has          *)
(* votes_confirm = 1, votes_dispute = 0 and status active, whatever the    *)
(* request body.                                                           *)
C8_ReportInitialState ==
    (response.op = "report" /\ response.code = 200)
       => /\ response.data.votes_confirm = 1
          /\ response.data.votes_dispute = 0
          /\ response.data.status = "active"
          /\ response.incident_id \in IncidentIds
          /\ incidents[response.incident_id] = response.data

(* A report of the body that gives every optional field has returned. *)
C8_Witness ==
    /\ response.op = "report"
    /\ response.code = 200
    /\ response.data.type = "other"
    /\ response.data.address # NULL
    /\ response.data.reported_by # NULL

(* C9: every incident a report has stored has also been handed to the     *)
(* Event Notifier.                                                         *)
C9_ReportPublishes ==
    \A i \in IncidentIds :
        \E k \in 1..Len(published) : published[k].incident_id = i

(* C10: a vote on an incident id that is not in the store answers 404 and *)
(* changes neither table, and no vote request on such an id gets further.  *)
C10_VoteOnMissingIncident ==
    [][/\ (response'.op = "vote" /\ response'.code = 404)
          => /\ ~Exists(response'.incident_id)
             /\ UNCHANGED <<incidents, votes, sess>>
       /\ \A s \in Sessions :
            (Idle(s) /\ sess'[s].pc = "vote_lookup")
               => Exists(sess'[s].incident_id)
       /\ \A k \in 1..Len(votes') : votes'[k].incident_id \in 1..Len(incidents')
      ]_vars

(* A vote on a missing id was answered 404 while the store held an        *)
(* incident and votes on it.                                               *)
C10_Witness ==
    /\ response.op = "vote"
    /\ response.code = 404
    /\ Len(incidents) > 0
    /\ Len(votes) > 0

(* C11: a vote whose type is neither confirm nor dispute is answered 422   *)
(* and leaves both tables as they were; no request in progress carries    *)
(* such a type and no vote row ever holds one.                             *)
C11_InvalidVoteTypeRejected ==
    [][/\ (response'.op = "vote" /\ response'.code = 422)
          => UNCHANGED <<incidents, votes, sess>>
       /\ \A s \in Sessions :
            sess'[s].pc # "idle" => sess'[s].vote_type \in {"confirm", "dispute", "none"}
       /\ \A s \in Sessions :
            sess'[s].vote_obj # NoVote
               => sess'[s].vote_obj.vote_type \in {"confirm", "dispute"}
       /\ \A k \in 1..Len(votes') :
            votes'[k].vote_type \in {"confirm", "dispute"}
      ]_vars

(* A vote of an invalid type was answered 422 while the store held an     *)
(* incident and votes on it.                                               *)
C11_Witness ==
    /\ response.op = "vote"
    /\ response.code = 422
    /\ Len(incidents) > 0
    /\ Len(votes) > 0

(* The ids a list reply returns *)
Returned == {response.list[k] : k \in 1..Len(response.list)}

(* The incidents a reply's status filter lets through: those of a status  *)
(* in the list asked for, the active ones when no list was asked for.      *)
MatchesFilter(i) ==
    IF response.query.filter.given
       THEN incidents[i].status \in response.query.filter.statuses
       ELSE incidents[i].status = "active"

(* The distance from the reply's centre to incident i *)
DistanceTo(i) ==
    calculate_distance(response.query.lat, response.query.lng,
                       incidents[i].latitude, incidents[i].longitude)

(* C12: when the limit is no smaller than the number of incidents the     *)
(* filter lets through, listNear returns such an incident if and only if   *)
(* its great-circle distance from the centre is at most the radius.        *)
C12_NearIffWithinRadius ==
    (/\ response.op = "near"
     /\ response.query.limit
           >= Cardinality({i \in IncidentIds : MatchesFilter(i)}))
       => \A i \in IncidentIds :
             MatchesFilter(i)
                => (i \in Returned <=> DistanceTo(i) <= response.query.radius)

(* Incident i passes both geometric tests of the reply's request. *)
InReach(i) ==
    /\ InBox(incidents[i], response.query.lat, response.query.lng,
             response.query.radius)
    /\ DistanceTo(i) <= response.query.radius

(* C13: listNear returns only incidents the status filter lets through:   *)
(* active ones when no list of statuses is given, those of a status in the *)
(* list when one is; and, the limit permitting, it returns every incident  *)
(* within reach that the filter lets through, so that a list given is not  *)
(* narrowed to the active incidents.                                       *)
C13_StatusFilterOrActiveDefault ==
    response.op = "near"
       => /\ \A i \in Returned : MatchesFilter(i)
          /\ response.query.limit >= Len(incidents)
                => \A i \in IncidentIds :
                      (MatchesFilter(i) /\ InReach(i)) => i \in Returned

(* A request that lists resolved alone has returned a resolved incident   *)
(* and left out an active one within reach.                                *)
C13_Witness ==
    /\ response.op = "near"
    /\ response.query.filter = StatusFilter({"resolved"})
    /\ \E i \in Returned : incidents[i].status = "resolved"
    /\ \E j \in IncidentIds \ Returned :
          incidents[j].status = "active" /\ InReach(j)

(* The incidents a listAll reply may draw from: all of them when no list  *)
(* of statuses is given, those of a status in the list when one is.        *)
Eligible ==
    {i \in IncidentIds :
        response.query.filter.given
           => incidents[i].status \in response.query.filter.statuses}

Min(a, b) == IF a < b THEN a ELSE b

(* The reply lists distinct incidents, newest first. *)
NewestFirst ==
    \A a, b \in 1..Len(response.list) :
        a < b => /\ response.list[a] # response.list[b]
                 /\ incidents[response.list[a]].created_at
                       >= incidents[response.list[b]].created_at

(* C14: listAll returns the window [offset, offset + limit) of the        *)
(* eligible incidents ordered by createdAt descending: it lists eligible   *)
(* incidents only, newest first, as many as the window holds, with offset  *)
(* eligible incidents no older than any listed skipped before it and the   *)
(* rest, none newer than any listed, after it.  Without a status filter    *)
(* every stored incident is eligible.                                      *)
C14_ListAllWindow ==
    response.op = "all"
       => /\ Returned \subseteq Eligible
          /\ NewestFirst
          /\ Len(response.list)
                = Min(response.query.limit,
                      Cardinality(Eligible)
                         - Min(response.query.offset, Cardinality(Eligible)))
          /\ \E before \in SUBSET (Eligible \ Returned) :
                /\ Cardinality(before)
                      = Min(response.query.offset, Cardinality(Eligible))
                /\ \A b \in before, i \in Returned :
                      incidents[b].created_at >= incidents[i].created_at
                /\ \A a \in (Eligible \ Returned) \ before, i \in Returned :
                      incidents[a].created_at <= incidents[i].created_at

(* A listAll without status filter, offset 1 and limit 1, has skipped a   *)
(* newer incident and returned a resolved one.                             *)
C14_Witness ==
    /\ response.op = "all"
    /\ ~response.query.filter.given
    /\ response.query.offset = 1
    /\ response.query.limit = 1
    /\ \E i \in Returned : incidents[i].status = "resolved"
    /\ \E j \in IncidentIds \ Returned :
          \A i \in Returned :
             incidents[j].created_at > incidents[i].created_at

(* C15: listNear with limit L returns at most L incidents, newest first,  *)
(* and the same request made again of the same store returns the same      *)
(* sequence.                                                               *)
C15_NearLimitedOrderedDeterministic ==
    [][response'.op = "near"
          => /\ Len(response'.list) <= response'.query.limit
             /\ NewestFirst'
             /\ (/\ response.op = "near"
                 /\ response.query = response'.query
                 /\ incidents' = incidents)
                   => response'.list = response.list
      ]_vars

(* Incident i passes both geometric tests of listNear(w, bufferKm), w the *)
(* k-th waypoint of the reply's route.                                     *)
NearWaypoint(i, k) ==
    /\ InBox(incidents[i], response.query.coords[k].lat,
             response.query.coords[k].lng, response.query.radius)
    /\ calculate_distance(response.query.coords[k].lat,
                          response.query.coords[k].lng,
                          incidents[i].latitude, incidents[i].longitude)
          <= response.query.radius

Waypoints == 1..Len(response.query.coords)

(* C16: no incident is listed twice in the reply of incidentsAlongRoute;  *)
(* an active incident near several waypoints, or near a waypoint given     *)
(* twice, is listed exactly once.                                          *)
C16_RouteListsEachOnce ==
    response.op = "route"
       => /\ \A a, b \in 1..Len(response.list) :
                a # b => response.list[a] # response.list[b]
          /\ \A i \in IncidentIds :
                (/\ incidents[i].status = "active"
                 /\ Cardinality({k \in Waypoints : NearWaypoint(i, k)}) >= 2)
                   => Cardinality({a \in 1..Len(response.list) :
                                      response.list[a] = i}) = 1

(* A route has returned two incidents or more, one of them near two of    *)
(* its waypoints.                                                          *)
C16_Witness ==
    /\ response.op = "route"
    /\ \E i \in Returned :
          Cardinality({k \in Waypoints : NearWaypoint(i, k)}) >= 2
    /\ Len(response.list) >= 2

(* C17: incidentsAlongRoute returns exactly the active incidents that     *)
(* listNear finds from at least one waypoint with radius bufferKm; an      *)
(* incident that is not active is never returned.                          *)
C17_RouteIsUnionOfNear ==
    response.op = "route"
       => /\ Returned = {i \in IncidentIds :
                            /\ incidents[i].status = "active"
                            /\ \E k \in Waypoints : NearWaypoint(i, k)}
          /\ \A i \in Returned : incidents[i].status = "active"

(* A route has returned an incident that only its second waypoint is near *)
(* and left out a resolved incident near a waypoint.                       *)
C17_Witness ==
    /\ response.op = "route"
    /\ \E i \in Returned : ~NearWaypoint(i, 1)
    /\ \E j \in IncidentIds \ Returned :
          /\ incidents[j].status = "resolved"
          /\ \E k \in Waypoints : NearWaypoint(j, k)

(* Session s commits a status update. *)
UpdCommits(s) == sess[s].pc = "upd_commit" /\ sess'[s].pc = "idle"

(* C18: a status update of an id that matches no incident answers 404 and *)
(* changes nothing, and none gets further; a status update of an incident  *)
(* stores the status asked for and an updatedAt later than the one the     *)
(* incident had before the request.                                        *)
C18_UpdateStatusSetsAndAdvances ==
    [][/\ (response'.op = "status" /\ response'.code = 404)
          => /\ ~Exists(response'.incident_id)
             /\ UNCHANGED <<incidents, votes, sess>>
       /\ \A s \in Sessions :
            (Idle(s) /\ sess'[s].pc = "upd_commit")
               => Exists(sess'[s].incident_id)
       /\ \A s \in Sessions :
            UpdCommits(s)
               => LET i == sess[s].incident_id
                  IN  /\ incidents'[i].status = sess[s].obj.status
                      /\ incidents'[i].updated_at > incidents[i].updated_at
                      /\ incidents'[i].updated_at > sess[s].loaded.updated_at
                      /\ response'.data = incidents'[i]
      ]_vars

(* A status update has returned the incident resolved, its updated_at     *)
(* later than its created_at.                                              *)
C18_Witness ==
    /\ response.op = "status"
    /\ response.code = 200
    /\ response.data.status = "resolved"
    /\ response.data.updated_at > response.data.created_at

(* C19: whatever status an incident has, a status update of it to any     *)
(* status of the enumeration, its own included, can begin, can commit, and *)
(* when it commits is answered 200 and leaves the incident with the status *)
(* asked for: no status is terminal.                                       *)
C19_AnyStatusFromAnyStatus ==
    [][/\ \A s \in Sessions, i \in IncidentIds, st \in IncidentStatus :
            Idle(s) => ENABLED UpdGetIncident(s, i, st)
       /\ \A s \in Sessions :
            sess[s].pc = "upd_commit" => ENABLED UpdCommit(s)
       /\ \A s \in Sessions :
            UpdCommits(s)
               => /\ response'.code = 200
                  /\ incidents'[sess[s].incident_id].status
                        = sess[s].obj.status
      ]_vars

(* A status update, later than the report, has returned the incident     *)
(* active.                                                                 *)
C19_Witness ==
    /\ response.op = "status"
    /\ response.code = 200
    /\ response.data.status = "active"
    /\ response.data.updated_at > response.data.created_at

(* C20: every status update and every vote that commits leaves the        *)
(* incident's updatedAt later than it was, and no step makes the updatedAt *)
(* of an incident earlier.                                                 *)
C20_UpdatedAtAdvances ==
    [][/\ \A s \in Sessions :
            (UpdCommits(s) \/ VoteCommits(s))
               => incidents'[sess[s].incident_id].updated_at
                     > incidents[sess[s].incident_id].updated_at
       /\ \A i \in IncidentIds :
            incidents'[i].updated_at >= incidents[i].updated_at
      ]_vars

(* Some incident's tallies differ between the tables incs and incs2. *)
TalliesDiffer(incs, incs2) ==
    \E i \in 1..Len(incs) :
        \/ incs2[i].votes_confirm # incs[i].votes_confirm
        \/ incs2[i].votes_dispute # incs[i].votes_dispute

(* The step writes the vote row session s holds, and no other vote row. *)
WritesOwnVote(s) ==
    IF sess[s].pending = "insert"
       THEN /\ Len(votes') = Len(votes) + 1
            /\ SubSeq(votes', 1, Len(votes)) = votes
            /\ votes'[Len(votes')].incident_id = sess[s].incident_id
            /\ votes'[Len(votes')].user_id = sess[s].user_id
            /\ votes'[Len(votes')].vote_type = sess[s].vote_type
       ELSE /\ Len(votes') = Len(votes)
            /\ \A k \in 1..Len(votes) :
                  k # sess[s].vote_id => votes'[k] = votes[k]

(* C21: the vote rows and the tallies change only in the one step in      *)
(* which a vote request commits, and that step writes both the vote row    *)
(* the request held and the tallies it had computed; a vote request that   *)
(* fails leaves the vote rows and the incidents as they were.              *)
C21_VoteCommitsWholeOrNothing ==
    [][/\ (votes' # votes \/ TalliesDiffer(incidents, incidents'))
          => \E s \in Sessions :
                /\ VoteCommits(s)
                /\ response'.code = 200
                /\ WritesOwnVote(s)
                /\ ~sess[s].raced
                      => /\ incidents'[sess[s].incident_id].votes_confirm
                               = sess[s].obj.votes_confirm
                         /\ incidents'[sess[s].incident_id].votes_dispute
                               = sess[s].obj.votes_dispute
       /\ (response'.op = "vote" /\ response'.code = 500)
          => UNCHANGED <<incidents, votes>>
      ]_vars

(* A vote request has failed while the other session is inside a vote    *)
(* request and the table holds a vote.                                     *)
C21_Witness ==
    /\ response.op = "vote"
    /\ response.code = 500
    /\ Len(votes) > 0
    /\ OpenVotes # {}

(* What a row is given at its creation and no operation assigns again *)
Created(row) ==
    [a \in {"type", "severity", "latitude", "longitude", "description",
            "address", "affected_lanes", "estimated_duration",
            "reported_by", "created_at"} |-> row[a]]

----------------------------------------------------------------------------
(* A report body as the claim words it: a coordinate out of range, an     *)
(* empty description, or a kind or severity outside the enumerations.      *)
Malformed(data) ==
    \/ data.lat < -90 \/ data.lat > 90
    \/ data.lng < -180 \/ data.lng > 180
    \/ data.description = <<>>
    \/ data.type \notin {"accident", "construction", "closure",
                         "congestion", "weather", "hazard", "other"}
    \/ data.severity \notin {"low", "medium", "high", "critical"}

WellFormedRow(row) ==
    /\ row.latitude >= -90 /\ row.latitude <= 90
    /\ row.longitude >= -180 /\ row.longitude <= 180
    /\ row.description # <<>>
    /\ row.type \in {"accident", "construction", "closure",
                     "congestion", "weather", "hazard", "other"}
    /\ row.severity \in {"low", "medium", "high", "critical"}

(* C23: a report whose latitude or longitude is out of range, whose       *)
(* description is empty or whose kind or severity is not of the           *)
(* enumeration is answered with a validation error (422) and stores no    *)
(* incident; every stored incident has coordinates in range, a non-empty  *)
(* description and an enum-valued kind and severity.                       *)
C23_MalformedReportRejected ==
    [][/\ \A s \in SeqSessions, data \in RawReports :
            (Malformed(data)
               /\ (ReportInvalid(s, data) \/ report_incident(s, data)))
            => /\ response'.op = "report"
               /\ response'.code = 422
               /\ incidents' = incidents
       /\ (response'.op = "report" /\ response'.code = 422)
            => incidents' = incidents
       /\ \A i \in 1..Len(incidents') : WellFormedRow(incidents'[i])
      ]_vars

(* A malformed report was answered 422 while the store held an incident   *)
(* reported before it.                                                     *)
C23_Witness ==
    /\ response.op = "report"
    /\ response.code = 422
    /\ incidents # <<>>
    /\ \A i \in IncidentIds : WellFormedRow(incidents[i])


----------------------------------------------------------------------------
(* A call of send_message returns in this step. *)
SendReturns ==
    /\ kafka'.calls = kafka.calls + 1 \/ kafka.pc = "get"
    /\ kafka'.pc = "idle"

(* C24: send_message raises nothing; it returns False when the producer   *)
(* is not initialised and when the sending fails, True only when the       *)
(* broker has acknowledged the record; and it returns control without      *)
(* waiting on the broker: its caller is never held inside the call.        *)
C24_PublishNeverWaits ==
    [][/\ SendReturns => kafka'.result \in {"True", "False"}
       /\ (SendReturns /\ kafka.producer = "None")
            => kafka'.result = "False"
       /\ (SendReturns /\ kafka'.result = "True")
            => /\ Len(published') = Len(published) + 1
               /\ published'[Len(published')] = kafka.message
       /\ kafka'.pc # "get"
      ]_vars

(* The three parts of C24 that send_message keeps: no raise, False from   *)
(* an uninitialised producer, True only on an acknowledgement.             *)
C24_ReturnsOutcome ==
    [][/\ SendReturns => kafka'.result \in {"True", "False"}
       /\ (SendReturns /\ kafka.producer = "None")
            => kafka'.result = "False"
       /\ (SendReturns /\ kafka'.result = "True")
            => /\ Len(published') = Len(published) + 1
               /\ published'[Len(published')] = kafka.message
      ]_vars


----------------------------------------------------------------------------
----------------------------------------------------------------------------
(* C26: login answers 401 with detail 'Incorrect username or password'    *)
(* and no token whenever the password verification fails, and 200 with an *)
(* access_token and token_type 'Bearer' whenever it succeeds, also when   *)
(* the lookup found no user.                                               *)
C26_LoginFollowsVerification ==
    [][\A s \in SeqSessions, u \in Usernames, p \in Passwords,
          user \in GetUserResults, verified \in BOOLEAN :
          login(s, u, p, user, verified)
          => /\ response'.op = "login"
             /\ ~verified
                  => /\ response'.code = 401
                     /\ response'.data =
                           [detail |-> "Incorrect username or password"]
             /\ verified
                  => /\ response'.code = 200
                     /\ DOMAIN response'.data = {"access_token", "token_type"}
                     /\ response'.data.token_type = "Bearer"
                     /\ response'.data.access_token.user_id = u
      ]_vars

(* A login has been answered 200 with a bearer token. *)
C26_Witness ==
    /\ response.op = "login"
    /\ response.code = 200
    /\ response.data.token_type = "Bearer"

(* C27: register answers 201 with message 'Create user successfully'      *)
(* whenever the creation returned a user, and 422 with detail 'User name  *)
(* is exist' whenever it returned nothing.                                 *)
C27_RegisterFollowsCreation ==
    [][\A s \in SeqSessions, u \in Usernames, p \in Passwords,
          created \in BOOLEAN :
          register_user(s, u, p, created)
          => /\ response'.op = "register"
             /\ created
                  => /\ response'.code = 201
                     /\ response'.data =
                           [message |-> "Create user successfully"]
             /\ ~created
                  => /\ response'.code = 422
                     /\ response'.data = [detail |-> "User name is exist"]
      ]_vars

(* A registration has been answered 422. *)
C27_Witness ==
    /\ response.op = "register"
    /\ response.code = 422
    /\ response.data = [detail |-> "User name is exist"]


----------------------------------------------------------------------------
(* The incidents of the reply's status filter within the reply's radius   *)
(* of its centre.                                                          *)
InRadius ==
    {i \in IncidentIds :
        MatchesFilter(i) /\ DistanceTo(i) <= response.query.radius}

(* C28: listNear with limit L returns the min(L, n) newest of the n       *)
(* incidents that match the status filter and lie within the radius: it   *)
(* returns fewer than L only when no further such incident exists.  Stated *)
(* of the stores in which every such incident lies inside the bounding     *)
(* box of the query and no two incidents were created at the same time.    *)
C28_NearLimitCountsInRadiusOnly ==
    (/\ response.op = "near"
     /\ \A i \in InRadius : InReach(i)
     /\ \A i, j \in IncidentIds :
           i # j => incidents[i].created_at # incidents[j].created_at)
    => /\ Returned \subseteq InRadius
       /\ Len(response.list)
             = Min(response.query.limit, Cardinality(InRadius))
       /\ \A i \in Returned, j \in InRadius \ Returned :
             incidents[i].created_at >= incidents[j].created_at


----------------------------------------------------------------------------
(* C29: a vote changes, of the incident voted on, only its vote records,  *)
(* votes_confirm, votes_dispute and updated_at: its status and its other  *)
(* fields stay, and every other incident and the vote records of every    *)
(* other incident stay as they were.                                       *)
C29_VoteTouchesOnlyTalliesAndVotes ==
    [][\A s \in Sessions :
          IF VoteCommits(s) /\ response'.code = 200
             THEN LET id == sess[s].incident_id
                  IN  /\ Len(incidents') = Len(incidents)
                      /\ \A a \in DOMAIN incidents[id]
                                  \ {"votes_confirm", "votes_dispute",
                                     "updated_at"} :
                            incidents'[id][a] = incidents[id][a]
                      /\ \A i \in IncidentIds \ {id} :
                            incidents'[i] = incidents[i]
                      /\ Len(votes') >= Len(votes)
                      /\ \A k \in VoteIds :
                            /\ votes'[k].incident_id = votes[k].incident_id
                            /\ votes[k].incident_id # id
                                  => votes'[k] = votes[k]
                      /\ \A k \in 1..Len(votes') \ VoteIds :
                            votes'[k].incident_id = id
             ELSE sess[s].pc # "idle" => UNCHANGED <<incidents, votes>>
      ]_vars

(* A dispute of the resolved incident has been committed: it is resolved  *)
(* still, with the dispute counted, while the other incident has a vote    *)
(* of its own.                                                             *)
C29_Witness ==
    /\ response.op = "vote"
    /\ response.code = 200
    /\ response.incident_id = 2
    /\ incidents[2].status = "resolved"
    /\ incidents[2].votes_dispute > 0
    /\ \E k \in VoteIds : votes[k].incident_id = 1


----------------------------------------------------------------------------
(* C30: a status update and a vote on the same incident, run in separate  *)
(* sessions and interleaved in any way, both take effect: the commit of   *)
(* the update stores its status and leaves the tallies as the database    *)
(* holds them, the commit of the vote stores its tallies and leaves the   *)
(* status as the database holds it; neither writes back a value it read   *)
(* before the other committed.                                             *)
C30_StatusAndTalliesBothKept ==
    [][\A s \in Sessions :
          LET id == sess[s].incident_id
          IN  /\ (UpdCommits(s) /\ response'.code = 200)
                   => /\ incidents'[id].status = sess[s].obj.status
                      /\ incidents'[id].votes_confirm
                            = incidents[id].votes_confirm
                      /\ incidents'[id].votes_dispute
                            = incidents[id].votes_dispute
              /\ (VoteCommits(s) /\ response'.code = 200)
                   => /\ incidents'[id].votes_confirm
                            = sess[s].obj.votes_confirm
                      /\ incidents'[id].votes_dispute
                            = sess[s].obj.votes_dispute
                      /\ incidents'[id].status = incidents[id].status
      ]_vars

(* A vote has been committed while a status update of the same incident,  *)
(* begun before it, holds the tallies read before the vote and is about    *)
(* to commit.                                                              *)
C30_Witness ==
    /\ response.op = "vote"
    /\ response.code = 200
    /\ \E s \in Sessions :
          /\ sess[s].pc = "upd_commit"
          /\ sess[s].incident_id = response.incident_id
          /\ sess[s].obj.status # incidents[response.incident_id].status
          /\ sess[s].loaded.votes_dispute
                # incidents[response.incident_id].votes_dispute

====
